---- MODULE Spec2Model ----
(***************************************************************************)
(* Model of src/playlist.rs: the playlist generator.  `run` blocks on      *)
(* `process`, which validates the destination path, fetches the day's      *)
(* schedule, fetches each game's content, probes every NHLTV feed item     *)
(* concurrently (join_all over tasks sharing a Mutex-guarded vector),      *)
(* and hands the accumulated game records to `create_playlist`, which      *)
(* builds the playlist, strips its second line and writes the file.        *)
(*                                                                         *)
(* Strings are sequences of one-character strings, so that prefix tests,   *)
(* extension extraction and single-line validation are computed.           *)
(***************************************************************************)
EXTENDS Integers, Sequences, FiniteSets, TLC

VARIABLES
    path,            \* the PathBuf given to run/process
    pc,              \* position of the process future / of run
    todays_schedule, \* todays_schedule.games (sequence of ScheduleGame)
    gi,              \* index in todays_schedule of the game being processed
    game_data,       \* the GameData under construction
    game_content,    \* game_content.media.epg of the current game
    ei,              \* index in game_content of the epg whose fan-out runs
    tasks,           \* the futures handed to join_all
    streams,         \* the Mutex-guarded Vec<(String, String)>
    lock,            \* holder of the Mutex: 0 = free, i = task i
    games,           \* the Vec<GameData> accumulated by process
    pl_games,        \* the games argument create_playlist was called with
    pending,         \* the text handed to fs::write
    file,            \* the destination file on disk
    exit_code,       \* status the process exited with (-1: still running)
    logged,          \* errors passed to log_error
    sched_calls,     \* get_schedule_for requests and how each ended
    content_calls,   \* get_game_content requests: [pk, res], res as above
    probes,          \* every probe request sent: [g, e, i, item]
    replies,         \* every body a probe request was answered with
    fs_calls,        \* fs::write invocations
    err,             \* the Error process returned ("none": none)
    env              \* what the services answer with at most in this run

vars == << path, pc, todays_schedule, gi, game_data, game_content, ei, tasks,
           streams, lock, games, pl_games, pending, file, exit_code, logged,
           sched_calls, content_calls, probes, replies, fs_calls, err, env >>

-----------------------------------------------------------------------------
(* Bounds of the model *)

\* most games in a schedule
MaxGames == 2
\* most feed items under one epg entry
MaxItems == 2
\* longest probe response explored when get_m3u8 is checked on its own
MaxBodyLen == 6

\* the destination before the run: absent, or an older file
NoFile == [exists |-> FALSE, lines |-> << >>]
OldFile == [exists |-> TRUE, lines |-> << << "o", "l", "d" >> >>]

\* the runs explored: long schedules of games with single-item entries,
\* written over an older file, single-game schedules with wide fan-outs,
\* written to a new file, and schedules of two games with fan-outs of two
Envs ==
    { [max_games |-> MaxGames, max_items |-> 1, file |-> OldFile],
      [max_games |-> 1, max_items |-> MaxItems, file |-> NoFile],
      [max_games |-> 2, max_items |-> 2, file |-> NoFile] }

-----------------------------------------------------------------------------
(* Strings *)

\* str::starts_with
StartsWith(s, p) ==
    /\ Len(s) >= Len(p)
    /\ \A i \in 1..Len(p) : s[i] = p[i]

Range(s) == { s[i] : i \in 1..Len(s) }

\* the literal "https" of get_m3u8
HTTPS == << "h", "t", "t", "p", "s" >>

\* characters char::is_control accepts, among those the model uses
ControlChars == { "\n", "\r" }

\* characters http::Uri refuses, among those the model uses
InvalidUriChars == { " " }

M3U == << "m", "3", "u" >>

-----------------------------------------------------------------------------
(* Option and Result values *)

None == << >>
Some(x) == << x >>

Ok(v) == [ok |-> TRUE, val |-> v, err |-> "none"]
Err(e) == [ok |-> FALSE, val |-> << >>, err |-> e]
\* a task's result while its request is still in flight
Unset == [ok |-> FALSE, val |-> << >>, err |-> "unset"]

-----------------------------------------------------------------------------
(* Inputs: destination paths, schedules, game contents, probe responses *)

PathPool ==
    { << "p", ".", "m", "3", "u" >>,
      << "p", ".", "m", "3", "u", "8" >>,
      << "p", ".", "M", "3", "U" >>,
      << "p" >>,
      << ".", "m", "3", "u" >> }

\* ScheduleGame: game_pk, the teams' names, the start time (UTC hour, minute)
G1 == [game_pk |-> 1, home |-> << "N", "Y", "R" >>, away |-> << "B", "O", "S" >>, date |-> [h |-> 23, m |-> 0]]
G2 == [game_pk |-> 2, home |-> << "T", "O", "R" >>, away |-> << "M", "T", "L" >>, date |-> [h |-> 0, m |-> 5]]
G3 == [game_pk |-> 3, home |-> << "W", "\n", "G" >>, away |-> << "O", "T", "T" >>, date |-> [h |-> 12, m |-> 30]]
GamePool == { G1, G2, G3 }

\* the schedules get_schedule_for may return: distinct games, any order
Schedules ==
    { s \in UNION { [1..n -> GamePool] : n \in 0..MaxGames } :
        \A i, j \in DOMAIN s : i # j => s[i] # s[j] }

\* todays_schedule.date formatted with "%Y-%m-%d"
ScheduleDate == << "2", "0", "1", "9", "-", "1", "0", "-", "0", "5" >>

\* feed items: media_feed_type, media_playback_id
I1 == [media_feed_type |-> << "H", "O", "M", "E" >>, media_playback_id |-> << "1" >>]
I2 == [media_feed_type |-> << "A", "W", "A", "Y" >>, media_playback_id |-> << "2" >>]
I3 == [media_feed_type |-> << "N", "A", "T", "I", "O", "N", "A", "L" >>, media_playback_id |-> << "3", " " >>]
ItemPool == << I1, I2, I3 >>

\* the item lists of an epg entry: up to MaxItems items, repeats allowed,
\* listed in the pool's order (the tasks of a fan-out are symmetric)
ItemLists ==
    LET fs == { f \in UNION { [1..n -> DOMAIN ItemPool] : n \in 0..MaxItems } :
                  \A i, j \in DOMAIN f : i < j => f[i] <= f[j] }
    IN  { [i \in DOMAIN f |-> ItemPool[f[i]]] : f \in fs }

NHLTV == << "N", "H", "L", "T", "V" >>
RECAP == << "R", "e", "c", "a", "p" >>

Epg(t, its) == [title |-> t, items |-> its]

\* the epg lists get_game_content may return
Contents ==
    { << >>,
      << Epg(RECAP, Some(<< I1 >>)) >>,
      << Epg(NHLTV, None) >>,
      << Epg(NHLTV, Some(<< I1 >>)), Epg(NHLTV, Some(<< I2 >>)) >> }
    \cup { << Epg(RECAP, Some(<< I1 >>)), Epg(NHLTV, Some(l)) >> : l \in ItemLists }

\* the bodies the probe endpoint may answer with
B_URL == << "h", "t", "t", "p", "s", ":", "a" >>
B_NL == << "h", "t", "t", "p", "s", "\n" >>
B_HTTP == << "h", "t", "t", "p" >>
Bodies == { B_URL, B_NL, B_HTTP }

\* every text of up to MaxBodyLen characters of a small alphabet
BodyAlphabet == { "h", "t", "p", "s", "x" }
AnyBodies == UNION { [1..n -> BodyAlphabet] : n \in 0..MaxBodyLen }

\* the longest item list of a content
Width(c) ==
    LET ws == { Len(c[n].items[1]) : n \in { k \in DOMAIN c : c[k].items # None } }
    IN  IF ws = {} THEN 0 ELSE CHOOSE w \in ws : \A v \in ws : v <= w

-----------------------------------------------------------------------------
(* Pure functions of playlist.rs *)

LastDot(p) ==
    LET ds == { i \in 1..Len(p) : p[i] = "." }
    IN  IF ds = {} THEN 0 ELSE CHOOSE i \in ds : \A j \in ds : j <= i

\* Path::extension on a bare file name: the part after the last dot, none
\* when there is no dot or the only dot leads the name
extension(p) ==
    IF LastDot(p) <= 1 THEN None ELSE Some(SubSeq(p, LastDot(p) + 1, Len(p)))

\* a check that lets a path without extension through
ExtensionOkLax(p) ==
    IF extension(p) # None
    THEN extension(p)[1] = M3U
    ELSE TRUE

\* the check at the head of process: FALSE is the bail!
ExtensionOk(p) ==
    IF extension(p) # None
    THEN extension(p)[1] = M3U
    ELSE FALSE

HOST == << "h", "t", "t", "p", ":", "/", "/", "h" >>

\* the format! of the probe url
ProbeUrl(date, id) ==
    HOST \o << "/", "g", "e", "t", "M", "3", "U", "8", ".", "p", "h", "p", "?", "l", "e", "a", "g", "u", "e", "=", "n", "h", "l", "&", "d", "a", "t", "e", "=" >>
         \o date \o << "&", "i", "d", "=" >> \o id
         \o << "&", "c", "d", "n", "=", "a", "k", "c" >>

\* url.parse::<http::Uri>()
UriParseOk(url) == Range(url) \cap InvalidUriChars = {}

\* a check for the prefix "http"
CheckBodyHttp(body_text) ==
    IF ~StartsWith(body_text, << "h", "t", "t", "p" >>)
    THEN Err("Game hasn't started")
    ELSE Ok(body_text)

\* the tail of get_m3u8, once the body text is read
CheckBody(body_text) ==
    IF ~StartsWith(body_text, HTTPS)
    THEN Err("Game hasn't started")
    ELSE Ok(body_text)

\* a GameData that starts from the streams of the record before it
GameDataNewKeep(game) ==
    [home |-> game.home, away |-> game.away, date |-> game.date,
     streams |-> game_data.streams]

\* GameData::new
GameDataNew(game) ==
    [home |-> game.home, away |-> game.away, date |-> game.date,
     streams |-> << >>]

\* a GameData not yet built
NoGame == [home |-> << >>, away |-> << >>, date |-> [h |-> 0, m |-> 0],
           streams |-> << >>]

-----------------------------------------------------------------------------
(* create_playlist: titles, segments, rendering *)

\* hours the local time zone is ahead of UTC, modulo 24 (20: UTC-4)
LocalOffsetHours == 20

\* DateTime::with_timezone(&Local).time()
LocalTime(d) == [h |-> (d.h + LocalOffsetHours) % 24, m |-> d.m]

Digit(n) == << "0", "1", "2", "3", "4", "5", "6", "7", "8", "9" >>[n + 1]
Pad2(n) == << Digit(n \div 10), Digit(n % 10) >>
NoPad(n) == IF n < 10 THEN << Digit(n) >> ELSE Pad2(n)

\* format("%I:%M %p"): the hour padded to two digits
FormatTimePadded(t) ==
    LET h12 == IF t.h % 12 = 0 THEN 12 ELSE t.h % 12
    IN  Pad2(h12) \o << ":" >> \o Pad2(t.m) \o << " " >>
        \o (IF t.h < 12 THEN << "A", "M" >> ELSE << "P", "M" >>)

\* format("%-I:%M %p")
FormatTime(t) ==
    LET h12 == IF t.h % 12 = 0 THEN 12 ELSE t.h % 12
    IN  NoPad(h12) \o << ":" >> \o Pad2(t.m) \o << " " >>
        \o (IF t.h < 12 THEN << "A", "M" >> ELSE << "P", "M" >>)

\* format!("{} @ {}, {} - {}", away, home, time, feed_type)
Title(game, stream) ==
    game.away \o << " ", "@", " " >> \o game.home \o << ",", " " >>
        \o FormatTime(LocalTime(game.date)) \o << " ", "-", " " >>
        \o stream.feed_type

\* a SingleLineString::new that accepts any text
SingleLineOkAny(s) == TRUE

\* SingleLineString::new: refuses text holding a control character
SingleLineOk(s) == Range(s) \cap ControlChars = {}

\* segments pushed with the later games first
RECURSIVE EntriesLaterFirst(_)
EntriesLaterFirst(gs) ==
    IF gs = << >> THEN << >>
    ELSE EntriesLaterFirst(Tail(gs))
         \o [j \in 1..Len(Head(gs).streams) |->
                [title |-> Title(Head(gs), Head(gs).streams[j]),
                 uri |-> Head(gs).streams[j].url]]

\* the (title, uri) of every stream of every game, in the loops' order
RECURSIVE Entries(_)
Entries(gs) ==
    IF gs = << >> THEN << >>
    ELSE [j \in 1..Len(Head(gs).streams) |->
             [title |-> Title(Head(gs), Head(gs).streams[j]),
              uri |-> Head(gs).streams[j].url]]
         \o Entries(Tail(gs))

\* every SingleLineString::new(..)? of the loops succeeds
SegmentsOk(gs) ==
    \A j \in 1..Len(Entries(gs)) :
        SingleLineOk(Entries(gs)[j].title) /\ SingleLineOk(Entries(gs)[j].uri)

EXTM3U == << "#", "E", "X", "T", "M", "3", "U" >>
TARGETDURATION == << "#", "E", "X", "T", "-", "X", "-", "T", "A", "R", "G", "E", "T", "D", "U", "R", "A", "T", "I", "O", "N", ":", "0" >>

\* the lines of format!("{}", playlist)
Rendered(gs) ==
    LET segments == Entries(gs)
    IN  [n \in 1..(2 + 2 * Len(segments)) |->
            IF n = 1 THEN EXTM3U
            ELSE IF n = 2 THEN TARGETDURATION
            ELSE IF n % 2 = 1
                 THEN << "#", "E", "X", "T", "I", "N", "F", ":", "0", "," >>
                      \o segments[(n - 1) \div 2].title
                 ELSE segments[(n - 2) \div 2].uri]

\* a loop that drops the line whose (zero-based) idx is 2
StripLineTwo(ls) ==
    [j \in 1..(IF Len(ls) >= 3 THEN Len(ls) - 1 ELSE Len(ls)) |->
        IF j < 3 THEN ls[j] ELSE ls[j + 1]]

\* the loop that keeps every line whose (zero-based) idx is not 1
StripLine(ls) ==
    [j \in 1..(IF Len(ls) >= 2 THEN Len(ls) - 1 ELSE Len(ls)) |->
        IF j < 2 THEN ls[j] ELSE ls[j + 1]]

-----------------------------------------------------------------------------
(* The fan-out of process: one task per feed item, joined by join_all *)

\* the first poll of the task of feed item it, i-th of epg e of game g: the
\* url is built and parsed; a url that does not parse ends the task
NewTask(it) ==
    IF UriParseOk(ProbeUrl(ScheduleDate, it.media_playback_id))
    THEN [item |-> it, st |-> "sent", body |-> None, res |-> Unset]
    ELSE [item |-> it, st |-> "done", body |-> None,
          res |-> Err("Failed to build URI")]

\* items.into_iter().map(..).collect(), polled once by join_all
Launch(items) == [i \in 1..Len(items) |-> NewTask(items[i])]

\* the requests the launched tasks have sent
Sent(ts, g, e) ==
    LET idx == { i \in 1..Len(ts) : ts[i].st = "sent" }
        RECURSIVE Build(_)
        Build(i) ==
            IF i > Len(ts) THEN << >>
            ELSE (IF i \in idx
                  THEN << [g |-> g, e |-> e, i |-> i, item |-> ts[i].item] >>
                  ELSE << >>) \o Build(i + 1)
    IN  Build(1)

\* a failure that ends the siblings still waiting for their response, as
\* try_join_all would
ProbeFailureCancels(ts, i, e) ==
    [j \in DOMAIN ts |->
        IF j = i \/ ts[j].st = "sent"
        THEN [ts[j] EXCEPT !.st = "done", !.res = Err(e)]
        ELSE ts[j]]

\* a failure after which the task waits for another response
ProbeFailureRetries(ts, i, e) == [ts EXCEPT ![i].res = Err(e)]

\* the tasks once task i's get_m3u8 returned Err(e): `if let Ok(..)` skips
\* the push and the task ends
ProbeFailure(ts, i, e) == [ts EXCEPT ![i].st = "done", ![i].res = Err(e)]

\* a push that replaces the buffer instead of appending to it
PushStreamLost(buf, t) == << << t.item.media_feed_type, t.res.val >> >>

\* streams.push((stream.media_feed_type, m3u8))
PushStream(buf, t) == Append(buf, << t.item.media_feed_type, t.res.val >>)

\* a join that is ready with the first task done
JoinReadyAny(ts) == ts = << >> \/ \E i \in 1..Len(ts) : ts[i].st = "done"

\* future::join_all(tasks) is ready
JoinReady(ts) == \A i \in 1..Len(ts) : ts[i].st = "done"

\* the loop pushing Stream { feed_type, url } onto game_data.streams
Merge(gd, buf) ==
    [gd EXCEPT !.streams =
        @ \o [j \in 1..Len(buf) |-> [feed_type |-> buf[j][1], url |-> buf[j][2]]]]

\* a filter that takes every entry that has items, whatever its title
MatchesAnyTitle(epg) == epg.items # None

\* the epg entries whose items are probed
Matches(epg) == epg.title = NHLTV /\ epg.items # None

\* index of the first epg at or after e that is probed, 0 when there is none
NextMatch(content, e) ==
    LET ms == { n \in e..Len(content) : Matches(content[n]) }
    IN  IF ms = {} THEN 0 ELSE CHOOSE n \in ms : \A k \in ms : n <= k

-----------------------------------------------------------------------------
(* The state machine *)

Init ==
    /\ path \in PathPool
    /\ env \in Envs
    /\ file = env.file
    /\ pc = "start"
    /\ todays_schedule = << >>
    /\ gi = 0
    /\ game_data = NoGame
    /\ game_content = << >>
    /\ ei = 0
    /\ tasks = << >>
    /\ streams = << >>
    /\ lock = 0
    /\ games = << >>
    /\ pl_games = << >>
    /\ pending = << >>
    /\ exit_code = -1
    /\ logged = << >>
    /\ sched_calls = << >>
    /\ content_calls = << >>
    /\ probes = << >>
    /\ replies = {}
    /\ fs_calls = 0
    /\ err = "none"

\* the log of requests with its last request ended as r
Ended(calls, r) == [calls EXCEPT ![Len(calls)] = r]
EndedPk(calls, r) == [calls EXCEPT ![Len(calls)].res = r]

\* process returns Err(e): the ? or bail! at the current position
Fail(e) ==
    /\ pc' = "failed"
    /\ err' = e

\* a games loop that leaves after the first game
NextGameFirstOnly(k, gms, sched, calls) ==
    /\ gi' = k
    /\ games' = gms
    /\ game_content' = << >>
    /\ ei' = 0
    /\ tasks' = << >>
    /\ streams' = << >>
    /\ UNCHANGED probes
    /\ IF k <= Len(sched) /\ k <= 1
       THEN /\ pc' = "await_content"
            /\ game_data' = GameDataNew(sched[k])
            /\ content_calls' =
                 Append(calls, [pk |-> sched[k].game_pk, res |-> "sent"])
            /\ UNCHANGED pl_games
       ELSE /\ pc' = "create_playlist"
            /\ game_data' = NoGame
            /\ pl_games' = gms
            /\ content_calls' = calls

\* the head of `for game in todays_schedule.games` for the k-th game, with
\* gms the games pushed so far: GameData::new and the content request, or,
\* past the last game, the call of create_playlist
NextGame(k, gms, sched, calls) ==
    /\ gi' = k
    /\ games' = gms
    /\ game_content' = << >>
    /\ ei' = 0
    /\ tasks' = << >>
    /\ streams' = << >>
    /\ UNCHANGED probes
    /\ IF k <= Len(sched)
       THEN /\ pc' = "await_content"
            /\ game_data' = GameDataNew(sched[k])
            /\ content_calls' =
                 Append(calls, [pk |-> sched[k].game_pk, res |-> "sent"])
            /\ UNCHANGED pl_games
       ELSE /\ pc' = "create_playlist"
            /\ game_data' = NoGame
            /\ pl_games' = gms
            /\ content_calls' = calls

\* an epg loop that pushes only the games that have streams
NextEpgSkipEmpty(e, gd, content, gms, sched, k, calls) ==
    LET n == NextMatch(content, e)
    IN  IF n # 0
        THEN /\ pc' = "join_all"
             /\ gi' = k
             /\ games' = gms
             /\ game_data' = gd
             /\ game_content' = content
             /\ ei' = n
             /\ tasks' = Launch(content[n].items[1])
             /\ streams' = << >>
             /\ probes' = probes \o Sent(Launch(content[n].items[1]), k, n)
             /\ content_calls' = calls
             /\ UNCHANGED pl_games
        ELSE NextGame(k + 1,
                      IF gd.streams = << >> THEN gms ELSE Append(gms, gd),
                      sched, calls)

\* the head of `for epg in game_content.media.epg` from the e-th entry on:
\* the next NHLTV entry with items launches its fan-out; with none left the
\* game is pushed and the games loop goes on
NextEpg(e, gd, content, gms, sched, k, calls) ==
    LET n == NextMatch(content, e)
    IN  IF n # 0
        THEN /\ pc' = "join_all"
             /\ gi' = k
             /\ games' = gms
             /\ game_data' = gd
             /\ game_content' = content
             /\ ei' = n
             /\ tasks' = Launch(content[n].items[1])
             /\ streams' = << >>
             /\ probes' = probes \o Sent(Launch(content[n].items[1]), k, n)
             /\ content_calls' = calls
             /\ UNCHANGED pl_games
        ELSE NextGame(k + 1, Append(gms, gd), sched, calls)

\* process: the extension check, then the schedule request
CheckPath ==
    /\ pc = "start"
    /\ IF ExtensionOk(path)
       THEN /\ pc' = "await_schedule"
            /\ sched_calls' = Append(sched_calls, "sent")
            /\ UNCHANGED err
       ELSE /\ Fail("Playlist file extension must be '.m3u'")
            /\ UNCHANGED sched_calls
    /\ UNCHANGED << env, path, todays_schedule, gi, game_data, game_content, ei,
                    tasks, streams, lock, games, pl_games, pending, file,
                    exit_code, logged, content_calls, probes, replies,
                    fs_calls >>

\* a failed schedule request taken for an empty schedule
ScheduleErrEmpty ==
    /\ pc = "await_schedule"
    /\ todays_schedule' = << >>
    /\ sched_calls' = Ended(sched_calls, "err")
    /\ NextGame(1, << >>, << >>, content_calls)
    /\ UNCHANGED << env, path, lock, pending, file, exit_code, logged,
                    replies, fs_calls, err >>

\* client.get_schedule_for(today).await? fails
ScheduleErr ==
    /\ pc = "await_schedule"
    /\ sched_calls' = Ended(sched_calls, "err")
    /\ Fail("get_schedule_for")
    /\ UNCHANGED << env, path, todays_schedule, gi, game_data, game_content, ei,
                    tasks, streams, lock, games, pl_games, pending, file,
                    exit_code, logged, content_calls, probes, replies,
                    fs_calls >>

\* client.get_schedule_for(today).await? returns a schedule
ScheduleOk ==
    /\ pc = "await_schedule"
    /\ \E s \in Schedules :
        /\ Len(s) <= env.max_games
        /\ todays_schedule' = s
        /\ NextGame(1, << >>, s, content_calls)
    /\ sched_calls' = Ended(sched_calls, "ok")
    /\ UNCHANGED << env, path, lock, pending, file, exit_code, logged,
                    replies, fs_calls, err >>

\* a failed content request that skips the game
ContentErrSkip ==
    /\ pc = "await_content"
    /\ NextGame(gi + 1, games, todays_schedule, EndedPk(content_calls, "err"))
    /\ UNCHANGED << env, path, todays_schedule, lock, pending, file,
                    exit_code, logged, sched_calls, replies, fs_calls, err >>

\* client.get_game_content(game.game_pk).await? fails
ContentErr ==
    /\ pc = "await_content"
    /\ content_calls' = EndedPk(content_calls, "err")
    /\ Fail("get_game_content")
    /\ UNCHANGED << env, path, todays_schedule, gi, game_data, game_content, ei,
                    tasks, streams, lock, games, pl_games, pending, file,
                    exit_code, logged, sched_calls, probes, replies,
                    fs_calls >>

\* client.get_game_content(game.game_pk).await? returns the content
ContentOk ==
    /\ pc = "await_content"
    /\ \E c \in Contents :
        /\ Width(c) <= env.max_items
        /\ NextEpg(1, game_data, c, games, todays_schedule, gi,
                   EndedPk(content_calls, "ok"))
    /\ UNCHANGED << env, path, todays_schedule, lock, pending, file, exit_code,
                    logged, sched_calls, replies, fs_calls, err >>

\* get_m3u8 of task i: client.send(request).await? or the body read fails
ProbeErr(i) ==
    /\ pc = "join_all"
    /\ i \in 1..Len(tasks)
    /\ tasks[i].st = "sent"
    /\ tasks' = ProbeFailure(tasks, i, "transport")
    /\ UNCHANGED << env, path, pc, todays_schedule, gi, game_data, game_content,
                    ei, streams, lock, games, pl_games, pending, file,
                    exit_code, logged, sched_calls, content_calls, probes,
                    replies, fs_calls, err >>

\* get_m3u8 of task i: the body b is read and checked; an Ok goes on to
\* streams.lock(), which returns the guard at once when the Mutex is free
ProbeReplyWith(i, bs) ==
    /\ pc = "join_all"
    /\ i \in 1..Len(tasks)
    /\ tasks[i].st = "sent"
    /\ \E b \in bs :
        /\ tasks' =
             IF ~CheckBody(b).ok
             THEN ProbeFailure([tasks EXCEPT ![i].body = Some(b)], i,
                               CheckBody(b).err)
             ELSE [tasks EXCEPT
                     ![i].body = Some(b),
                     ![i].res = CheckBody(b),
                     ![i].st = IF lock = 0 THEN "locked" ELSE "lock"]
        /\ lock' = IF CheckBody(b).ok /\ lock = 0 THEN i ELSE lock
        /\ replies' = replies \cup
                        { [g |-> gi, item |-> tasks[i].item, body |-> b] }
    /\ UNCHANGED << env, path, pc, todays_schedule, gi, game_data, game_content,
                    ei, streams, games, pl_games, pending, file,
                    exit_code, logged, sched_calls, content_calls, probes,
                    fs_calls, err >>

ProbeReply(i) == ProbeReplyWith(i, Bodies)

\* a lock() that returns while another task holds the guard
AcquireHeld(i) ==
    /\ pc = "join_all"
    /\ i \in 1..Len(tasks)
    /\ tasks[i].st = "lock"
    /\ lock' = i
    /\ tasks' = [tasks EXCEPT ![i].st = "locked"]
    /\ UNCHANGED << env, path, pc, todays_schedule, gi, game_data, game_content,
                    ei, streams, games, pl_games, pending, file, exit_code,
                    logged, sched_calls, content_calls, probes, replies,
                    fs_calls, err >>

\* task i, waiting in streams.lock().await: the Mutex is free again
Acquire(i) ==
    /\ pc = "join_all"
    /\ i \in 1..Len(tasks)
    /\ tasks[i].st = "lock"
    /\ lock = 0
    /\ lock' = i
    /\ tasks' = [tasks EXCEPT ![i].st = "locked"]
    /\ UNCHANGED << env, path, pc, todays_schedule, gi, game_data, game_content,
                    ei, streams, games, pl_games, pending, file, exit_code,
                    logged, sched_calls, content_calls, probes, replies,
                    fs_calls, err >>

\* a push whose guard is never dropped
PushKeepsLock(i) ==
    /\ pc = "join_all"
    /\ i \in 1..Len(tasks)
    /\ tasks[i].st = "locked"
    /\ streams' = PushStream(streams, tasks[i])
    /\ lock' = i
    /\ tasks' = [tasks EXCEPT ![i].st = "done"]
    /\ UNCHANGED << env, path, pc, todays_schedule, gi, game_data, game_content,
                    ei, games, pl_games, pending, file, exit_code, logged,
                    sched_calls, content_calls, probes, replies, fs_calls,
                    err >>

\* task i: the push, then the guard is dropped and the task ends
Push(i) ==
    /\ pc = "join_all"
    /\ i \in 1..Len(tasks)
    /\ tasks[i].st = "locked"
    /\ streams' = PushStream(streams, tasks[i])
    /\ lock' = 0
    /\ tasks' = [tasks EXCEPT ![i].st = "done"]
    /\ UNCHANGED << env, path, pc, todays_schedule, gi, game_data, game_content,
                    ei, games, pl_games, pending, file, exit_code, logged,
                    sched_calls, content_calls, probes, replies, fs_calls,
                    err >>

\* join_all returns; the coordinator locks streams, clones it, merges it into
\* game_data and goes on with the epg loop
JoinAll ==
    /\ pc = "join_all"
    /\ JoinReady(tasks)
    /\ lock = 0
    /\ NextEpg(ei + 1, Merge(game_data, streams), game_content, games,
               todays_schedule, gi, content_calls)
    /\ UNCHANGED << env, path, todays_schedule, lock, pending, file, exit_code,
                    logged, sched_calls, replies, fs_calls, err >>

\* create_playlist up to fs::write: the segments are built, the playlist is
\* rendered and its second line dropped
BuildPlaylist ==
    /\ pc = "create_playlist"
    /\ IF SegmentsOk(pl_games)
       THEN /\ pc' = "fs_write"
            /\ pending' = StripLine(Rendered(pl_games))
            /\ fs_calls' = fs_calls + 1
            /\ UNCHANGED err
       ELSE /\ Fail("SingleLineString")
            /\ UNCHANGED << pending, fs_calls >>
    /\ UNCHANGED << env, path, todays_schedule, gi, game_data, game_content, ei,
                    tasks, streams, lock, games, pl_games, file, exit_code,
                    logged, sched_calls, content_calls, probes, replies >>

\* fs::write(&path, string).await? succeeds; process returns Ok(())
FsWriteOk ==
    /\ pc = "fs_write"
    /\ file' = [exists |-> TRUE, lines |-> pending]
    /\ pc' = "ok"
    /\ UNCHANGED << env, path, todays_schedule, gi, game_data, game_content, ei,
                    tasks, streams, lock, games, pl_games, pending,
                    exit_code, logged, sched_calls, content_calls, probes,
                    replies, fs_calls, err >>

\* fs::write(&path, string).await? fails, before or after the file was
\* created or truncated
FsWriteErr ==
    /\ pc = "fs_write"
    /\ file' \in { file, [exists |-> TRUE, lines |-> << >>] }
    /\ Fail("fs::write")
    /\ UNCHANGED << env, path, todays_schedule, gi, game_data, game_content, ei,
                    tasks, streams, lock, games, pl_games, pending,
                    exit_code, logged, sched_calls, content_calls, probes,
                    replies, fs_calls >>

\* run: process returned Err(e): log_error(&e)
LogError ==
    /\ pc = "failed"
    /\ logged' = Append(logged, err)
    /\ pc' = "logged"
    /\ UNCHANGED << env, path, todays_schedule, gi, game_data, game_content, ei,
                    tasks, streams, lock, games, pl_games, pending, file,
                    exit_code, sched_calls, content_calls, probes, replies,
                    fs_calls, err >>

\* an exit that does not wait for log_error
ExitUnlogged ==
    /\ pc \in { "failed", "logged" }
    /\ exit_code' = 1
    /\ pc' = "exited"
    /\ UNCHANGED << env, path, todays_schedule, gi, game_data, game_content, ei,
                    tasks, streams, lock, games, pl_games, pending, file,
                    logged, sched_calls, content_calls, probes, replies,
                    fs_calls, err >>

\* run: process::exit(1)
Exit ==
    /\ pc = "logged"
    /\ exit_code' = 1
    /\ pc' = "exited"
    /\ UNCHANGED << env, path, todays_schedule, gi, game_data, game_content, ei,
                    tasks, streams, lock, games, pl_games, pending, file,
                    logged, sched_calls, content_calls, probes, replies,
                    fs_calls, err >>

\* run: process returned Ok(()); block_on and run return
Return ==
    /\ pc = "ok"
    /\ exit_code' = 0
    /\ pc' = "returned"
    /\ UNCHANGED << env, path, todays_schedule, gi, game_data, game_content, ei,
                    tasks, streams, lock, games, pl_games, pending, file,
                    logged, sched_calls, content_calls, probes, replies,
                    fs_calls, err >>

\* the most tasks one fan-out holds
Tasks == 1..MaxItems

Next ==
    \/ CheckPath
    \/ ScheduleErr
    \/ ScheduleOk
    \/ ContentErr
    \/ ContentOk
    \/ \E i \in Tasks : ProbeErr(i)
    \/ \E i \in Tasks : ProbeReply(i)
    \/ \E i \in Tasks : Acquire(i)
    \/ \E i \in Tasks : Push(i)
    \/ JoinAll
    \/ BuildPlaylist
    \/ FsWriteOk
    \/ FsWriteErr
    \/ LogError
    \/ Exit
    \/ Return

Spec == Init /\ [][Next]_vars

-----------------------------------------------------------------------------
\* The runs that write a new file, when every request is answered and every
\* task and the coordinator are polled again by block_on whenever they can go
\* on: no step that can be taken is put off forever.
InitLive == Init /\ env.file = NoFile

SpecLive == InitLive /\ [][Next]_vars /\ WF_vars(Next)

(* get_m3u8 on its own: one task of one fan-out, answered with any text *)

InitResolve ==
    /\ path = << "p", ".", "m", "3", "u" >>
    /\ env = [max_games |-> 1, max_items |-> 1, file |-> NoFile]
    /\ file = NoFile
    /\ pc = "join_all"
    /\ todays_schedule = << G1 >>
    /\ gi = 1
    /\ game_data = GameDataNew(G1)
    /\ game_content = << Epg(RECAP, Some(<< I1 >>)), Epg(NHLTV, Some(<< I1 >>)) >>
    /\ ei = 2
    /\ tasks = Launch(<< I1 >>)
    /\ streams = << >>
    /\ lock = 0
    /\ games = << >>
    /\ pl_games = << >>
    /\ pending = << >>
    /\ exit_code = -1
    /\ logged = << >>
    /\ sched_calls = << "ok" >>
    /\ content_calls = << [pk |-> 1, res |-> "ok"] >>
    /\ probes = Sent(Launch(<< I1 >>), 1, 2)
    /\ replies = {}
    /\ fs_calls = 0
    /\ err = "none"

ResolveReply == ProbeReplyWith(1, AnyBodies)

ResolvePush == Push(1)

NextResolve ==
    \/ ResolveReply
    \/ ResolvePush

SpecResolve == InitResolve /\ [][NextResolve]_vars

-----------------------------------------------------------------------------
(* The title of create_playlist on its own: create_playlist called with one
   game of one stream, for any start time and several names and feed types *)

TitleAways == { G1.away, << "B", "o", "s", "t", "o", "n", " ", "B", "r", "u", "i", "n", "s" >> }
TitleHomes == { G1.home, << "N", "e", "w", " ", "Y", "o", "r", "k", " ", "R", "a", "n", "g", "e", "r", "s" >> }
TitleFeeds == { I1.media_feed_type, << "h", "o", "m", "e" >> }
TitleMinutes == { 0, 5, 30, 59 }
TitleUrls == { B_URL, B_URL \o << "b" >> }

InitTitle ==
    \E a \in TitleAways, h \in TitleHomes, f \in TitleFeeds, u \in TitleUrls,
       dh \in 0..23, dm \in TitleMinutes :
        LET game == [game_pk |-> 1, home |-> h, away |-> a,
                     date |-> [h |-> dh, m |-> dm]]
            item == [media_feed_type |-> f, media_playback_id |-> << "1" >>]
            rec == Merge(GameDataNew(game), << << f, u >> >>)
        IN  /\ path = << "p", ".", "m", "3", "u" >>
            /\ env = [max_games |-> 1, max_items |-> 1, file |-> NoFile]
            /\ file = NoFile
            /\ pc = "create_playlist"
            /\ todays_schedule = << game >>
            /\ gi = 2
            /\ game_data = NoGame
            /\ game_content = << >>
            /\ ei = 0
            /\ tasks = << >>
            /\ streams = << >>
            /\ lock = 0
            /\ games = << rec >>
            /\ pl_games = << rec >>
            /\ pending = << >>
            /\ exit_code = -1
            /\ logged = << >>
            /\ sched_calls = << "ok" >>
            /\ content_calls = << [pk |-> 1, res |-> "ok"] >>
            /\ probes = Sent(Launch(<< item >>), 1, 1)
            /\ replies = { [g |-> 1, item |-> item, body |-> u] }
            /\ fs_calls = 0
            /\ err = "none"

NextTitle == BuildPlaylist

SpecTitle == InitTitle /\ [][NextTitle]_vars

-----------------------------------------------------------------------------
(* Properties *)

\* "starts with https", spelled out
HasHttpsPrefix(b) ==
    /\ Len(b) >= 5
    /\ b[1] = "h" /\ b[2] = "t" /\ b[3] = "t" /\ b[4] = "p" /\ b[5] = "s"

\* the destination file is as it was before the run
Untouched == file = env.file

\* the tasks whose probe was answered with a resolvable body
Succeeded == { i \in 1..Len(tasks) :
                 tasks[i].body # None /\ HasHttpsPrefix(tasks[i].body[1]) }

\* C1: when join_all is ready, the buffer holds exactly one (feed_type, url)
\* entry per probe that was answered with a resolvable body, whatever the
\* order the probes completed in: the entries are those of the succeeded
\* tasks, each once, and nothing of a failed task.
FanOutYieldsSuccesses ==
    (pc = "join_all" /\ JoinReady(tasks)) =>
        /\ Len(streams) = Cardinality(Succeeded)
        /\ \E f \in [1..Len(streams) -> Succeeded] :
            /\ \A a, b \in 1..Len(streams) : a # b => f[a] # f[b]
            /\ \A j \in 1..Len(streams) :
                streams[j] = << tasks[f[j]].item.media_feed_type,
                                tasks[f[j]].body[1] >>

\* two probes, the first failed, the second resolved, join_all ready
FanOutOneOfTwo ==
    /\ pc = "join_all"
    /\ JoinReady(tasks)
    /\ Len(tasks) = 2
    /\ Succeeded = { 2 }
    /\ Len(streams) = 1

\* the errors process returns before create_playlist reaches fs::write
EarlyErrors ==
    { "Playlist file extension must be '.m3u'", "get_schedule_for",
      "get_game_content", "SingleLineString" }

\* C2: the file is written at most once, and only once every game of the
\* schedule has been fetched and pushed and the playlist text is built; after
\* a failed extension check, schedule fetch, content fetch or
\* SingleLineString construction fs::write was never called and the file is
\* as it was.
NoPartialOutput ==
    /\ fs_calls <= 1
    /\ fs_calls = 1 =>
        /\ sched_calls = << "ok" >>
        /\ content_calls =
             [k \in 1..Len(todays_schedule) |->
                 [pk |-> todays_schedule[k].game_pk, res |-> "ok"]]
        /\ Len(games) = Len(todays_schedule)
        /\ pl_games = games
        /\ SegmentsOk(pl_games)
        /\ pending = StripLine(Rendered(pl_games))
    /\ ~Untouched => fs_calls = 1 /\ file.lines \in { << >>, pending }
    /\ err \in EarlyErrors => fs_calls = 0 /\ Untouched

\* two games were processed, one resolved a stream, its url does not make a
\* SingleLineString, and the run exited with the file as it was
SerializationAbort ==
    /\ pc = "exited"
    /\ err = "SingleLineString"
    /\ Len(pl_games) = 2
    /\ \E k \in 1..2 : \E j \in 1..Len(pl_games[k].streams) :
          pl_games[k].streams[j].url = B_NL
    /\ fs_calls = 0
    /\ Untouched

\* C3: a path whose extension is missing or not "m3u" makes process fail at
\* once: no schedule request, no content request, no probe, no fs::write, the
\* file as it was, and the only way on is the error exit.
BadExtensionFailsFirst ==
    (extension(path) = None \/ extension(path)[1] # M3U) =>
        /\ sched_calls = << >>
        /\ content_calls = << >>
        /\ probes = << >>
        /\ replies = {}
        /\ fs_calls = 0
        /\ Untouched
        /\ pc \in { "start", "failed", "logged", "exited" }
        /\ pc # "start" => err = "Playlist file extension must be '.m3u'"
        /\ exit_code \in { -1, 1 }

\* a path without extension: the run exited with status 1
NoExtensionExited ==
    /\ extension(path) = None
    /\ pc = "exited"
    /\ exit_code = 1
    /\ sched_calls = << >>

\* C4: a task whose probe was answered with body B holds Ok(B) iff B starts
\* with "https"; any other body gives an Err, ends the task, and never
\* reaches the buffer.
ResolveIffHttps ==
    /\ \A i \in 1..Len(tasks) :
        tasks[i].body # None =>
            IF HasHttpsPrefix(tasks[i].body[1])
            THEN tasks[i].res = Ok(tasks[i].body[1])
            ELSE /\ ~tasks[i].res.ok
                 /\ tasks[i].res.val = << >>
                 /\ tasks[i].st = "done"
    /\ \A j \in 1..Len(streams) : HasHttpsPrefix(streams[j][2])

\* the body "https" itself resolved and was pushed
ExactPrefixResolved ==
    /\ Len(tasks) = 1
    /\ tasks[1].body = Some(HTTPS)
    /\ tasks[1].res.ok
    /\ streams = << << I1.media_feed_type, HTTPS >> >>

\* the errors get_m3u8 returns
ProbeErrors == { "Failed to build URI", "transport", "Game hasn't started" }

\* C5: a probe failure is never the error of the run; a feed item whose url
\* does not parse does not keep its siblings' requests from being sent; and
\* the step in which a probe fails changes nothing but that task: the run
\* goes on, the siblings, the buffer, the game record and the games are as
\* they were.
ProbeFailureScoped ==
    /\ [](err \notin ProbeErrors)
    /\ [](pc = "join_all" =>
            \A i \in 1..Len(tasks) :
                UriParseOk(ProbeUrl(ScheduleDate,
                                    tasks[i].item.media_playback_id)) =>
                    \E n \in 1..Len(probes) :
                        probes[n] = [g |-> gi, e |-> ei, i |-> i,
                                     item |-> tasks[i].item])
    /\ [][\A i \in 1..Len(tasks) :
            (/\ pc = "join_all"
             /\ tasks[i].st = "sent"
             /\ Len(tasks') = Len(tasks)
             /\ tasks'[i].st = "done")
            => /\ pc' = "join_all"
               /\ err' = "none"
               /\ ~tasks'[i].res.ok
               /\ streams' = streams
               /\ lock' = lock
               /\ game_data' = game_data
               /\ games' = games
               /\ \A k \in 1..Len(tasks) : k # i => tasks'[k] = tasks[k]]_vars

\* one fan-out of two probes, one answered with a body that is no url, the
\* other resolved: the run returned and the file holds the one entry
FailedProbeSiblingWritten ==
    /\ pc = "returned"
    /\ Len(probes) = 2
    /\ probes[1].e = probes[2].e
    /\ \E r \in replies : r.body = B_HTTP
    /\ Len(pl_games) = 1
    /\ Len(pl_games[1].streams) = 1
    /\ file.lines = pending
    /\ Len(pending) = 3

\* C6: once the schedule request has failed the run is on its error exit:
\* the error is the schedule's, no content request and no probe was or is
\* issued, fs::write is never called, the file is as it was, and the exit
\* status, once set, is 1.
ScheduleFailureAborts ==
    (sched_calls # << >> /\ sched_calls[1] = "err") =>
        /\ pc \in { "failed", "logged", "exited" }
        /\ err = "get_schedule_for"
        /\ content_calls = << >>
        /\ probes = << >>
        /\ fs_calls = 0
        /\ Untouched
        /\ exit_code = (IF pc = "exited" THEN 1 ELSE -1)

\* the schedule request failed and the run exited with status 1, an older
\* file still in place
ScheduleFailedExited ==
    /\ sched_calls = << "err" >>
    /\ pc = "exited"
    /\ exit_code = 1
    /\ file = OldFile

\* C7: once the content request of a game has failed the run is on its error
\* exit: that request is the last one issued, no probe of that game or of a
\* later one exists, the game was not pushed, create_playlist and fs::write
\* are never called and the file is as it was.
ContentFailureAborts ==
    \A n \in 1..Len(content_calls) :
        content_calls[n].res = "err" =>
            /\ n = Len(content_calls)
            /\ pc \in { "failed", "logged", "exited" }
            /\ err = "get_game_content"
            /\ \A p \in 1..Len(probes) : probes[p].g < n
            /\ Len(games) = n - 1
            /\ pl_games = << >>
            /\ fs_calls = 0
            /\ Untouched
            /\ exit_code = (IF pc = "exited" THEN 1 ELSE -1)

\* the first game resolved a stream, the content request of the second game
\* failed, and the run exited without writing
SecondContentFailed ==
    /\ pc = "exited"
    /\ Len(content_calls) = 2
    /\ content_calls[2].res = "err"
    /\ Len(games) = 1
    /\ games[1].streams # << >>
    /\ Untouched

\* C8: a step that leaves the fan-out (merges the buffer into the game
\* record, starts the next fan-out, goes on to the next game or to
\* create_playlist) is taken only with every task of the fan-out done and the
\* Mutex free, and merges the whole buffer.
JoinAllWaits ==
    [][(/\ pc = "join_all"
        /\ \/ pc' # "join_all"
           \/ ei' # ei
           \/ gi' # gi
           \/ game_data' # game_data
           \/ games' # games)
       => /\ \A i \in 1..Len(tasks) : tasks[i].st = "done"
          /\ lock = 0
          /\ Len(streams) = Cardinality({ i \in 1..Len(tasks) : tasks[i].res.ok })
          /\ \/ Len(game_data'.streams)
                  = Len(game_data.streams) + Len(streams)
             \/ /\ Len(games') = Len(games) + 1
                /\ Len(games'[Len(games')].streams)
                    = Len(game_data.streams) + Len(streams)]_vars

\* a fan-out of two probes both of which resolved was joined and merged
TwoProbesJoined ==
    /\ pc = "create_playlist"
    /\ Len(probes) = 2
    /\ probes[1].e = probes[2].e
    /\ Len(pl_games) = 1
    /\ Len(pl_games[1].streams) = 2

\* every stream of record rec is the (feed type, body) of a reply to a probe
\* of game g, and the body starts with "https"
OwnStreams(rec, g) ==
    \A j \in 1..Len(rec.streams) :
        /\ HasHttpsPrefix(rec.streams[j].url)
        /\ \E r \in replies :
            /\ r.g = g
            /\ r.body = rec.streams[j].url
            /\ r.item.media_feed_type = rec.streams[j].feed_type

\* C9: every stream of every game record (those pushed, the one under
\* construction, those handed to create_playlist) is the feed type and the
\* body of a reply to a probe of one of that game's feed items, and the body
\* starts with "https".
StreamsFromOwnProbes ==
    /\ \A k \in 1..Len(games) : OwnStreams(games[k], k)
    /\ \A k \in 1..Len(pl_games) : OwnStreams(pl_games[k], k)
    /\ pc \in { "await_content", "join_all" } => OwnStreams(game_data, gi)
    /\ pc = "join_all" =>
        \A j \in 1..Len(streams) :
            OwnStreams([streams |-> << [feed_type |-> streams[j][1],
                                        url |-> streams[j][2]] >>], gi)

\* two games, the first with the HOME feed resolved to one url, the second
\* with the AWAY feed resolved to another
TwoGamesOwnStreams ==
    /\ Len(games) = 2
    /\ games[1].streams = << [feed_type |-> I1.media_feed_type, url |-> B_URL] >>
    /\ games[2].streams = << [feed_type |-> I2.media_feed_type, url |-> B_NL] >>

\* C10: when create_playlist is called, and from then on, its games argument
\* holds one record per game of the schedule, in the schedule's order,
\* whether or not the game has streams.
SerializerGetsSchedule ==
    (pc \in { "create_playlist", "fs_write", "ok", "returned" }
        \/ err \in { "SingleLineString", "fs::write" }) =>
        /\ Len(pl_games) = Len(todays_schedule)
        /\ \A k \in 1..Len(pl_games) :
            /\ pl_games[k].home = todays_schedule[k].home
            /\ pl_games[k].away = todays_schedule[k].away
            /\ pl_games[k].date = todays_schedule[k].date

\* create_playlist is called for a schedule of two games listed against
\* their game_pk, the first without streams, the second with one
SerializerCalledTwoGames ==
    /\ pc = "create_playlist"
    /\ Len(todays_schedule) = 2
    /\ todays_schedule[1].game_pk > todays_schedule[2].game_pk
    /\ pl_games[1].streams = << >>
    /\ Len(pl_games[2].streams) = 1

\* the number of streams of the first k records of gs
RECURSIVE StreamsBefore(_, _)
StreamsBefore(gs, k) ==
    IF k = 0 THEN 0 ELSE StreamsBefore(gs, k - 1) + Len(gs[k].streams)

\* the line of the written file that carries the title of stream j of game k
TitleLine(k, j) == 2 * (StreamsBefore(pl_games, k - 1) + j)

\* C11: the file of a successful run holds, after its header line, exactly
\* one entry (a title line and a url line) per stream of the game records, in
\* the order of the schedule and, within a game, of the record's streams; a
\* game without streams has no entry, and no line is a body that failed the
\* https check or the answer to a request that was never sent.
PlaylistListsStreams ==
    pc \in { "ok", "returned" } =>
        /\ file.exists
        /\ Len(file.lines) = 1 + 2 * StreamsBefore(pl_games, Len(pl_games))
        /\ StreamsBefore(pl_games, Len(pl_games)) <= Len(probes)
        /\ \A k \in 1..Len(pl_games) : \A j \in 1..Len(pl_games[k].streams) :
            /\ file.lines[TitleLine(k, j)] =
                   << "#", "E", "X", "T", "I", "N", "F", ":", "0", "," >>
                   \o Title(todays_schedule[k], pl_games[k].streams[j])
            /\ file.lines[TitleLine(k, j) + 1] = pl_games[k].streams[j].url
            /\ HasHttpsPrefix(file.lines[TitleLine(k, j) + 1])
        /\ \A n \in 1..Len(file.lines) : file.lines[n] # B_HTTP

\* one game with two feeds, the first resolved and the second answered with
\* a body that is no url: the file holds the single entry of the first
PlaylistOneOfTwo ==
    /\ pc = "returned"
    /\ Len(todays_schedule) = 1
    /\ Len(probes) = 2
    /\ \E r \in replies : r.body = B_HTTP /\ r.item = I2
    /\ Len(file.lines) = 3
    /\ file.lines[3] = B_URL
    /\ pl_games[1].streams = << [feed_type |-> I1.media_feed_type, url |-> B_URL] >>

\* C12: the string handed to fs::write is the rendered document without its
\* line of zero-based index 1: one line fewer, line 0 kept, every line from
\* index 2 on kept one place earlier, and no line of it, the one at index 1
\* in particular, is the target duration tag.
StripsSecondLine ==
    fs_calls > 0 =>
        LET doc == Rendered(pl_games)
        IN  /\ Len(doc) >= 2
            /\ Len(pending) = Len(doc) - 1
            /\ pending[1] = doc[1]
            /\ \A n \in 2..Len(pending) : pending[n] = doc[n + 1]
            /\ doc[2] = << "#", "E", "X", "T", "-", "X", "-", "T", "A", "R", "G", "E", "T", "D", "U", "R", "A", "T", "I", "O", "N", ":", "0" >>
            /\ \A n \in 1..Len(pending) : pending[n] # doc[2]
            /\ pc \in { "ok", "returned" } => file.lines = pending

\* a document of two entries was stripped and written: five lines of the
\* rendered six
StrippedTwoEntries ==
    /\ pc = "ok"
    /\ Len(Rendered(pl_games)) = 6
    /\ Len(file.lines) = 5
    /\ file.lines[2][5] = "I"

\* C13: a run that ended has status 0 exactly when process returned Ok and 1
\* when it returned an error; the error of a failed run is logged once, while
\* the process has not yet exited, and it is that error; a run without error
\* logs nothing.
ExitStatusAndReport ==
    /\ exit_code \in { -1, 0, 1 }
    /\ exit_code # -1 <=> pc \in { "returned", "exited" }
    /\ pc = "returned" => exit_code = 0 /\ err = "none" /\ logged = << >>
    /\ pc = "exited" => exit_code = 1 /\ err # "none" /\ logged = << err >>
    /\ pc = "logged" => exit_code = -1 /\ err # "none" /\ logged = << err >>
    /\ pc = "failed" => exit_code = -1 /\ err # "none" /\ logged = << >>
    /\ err = "none" <=> pc \notin { "failed", "logged", "exited" }
    /\ err = "none" => logged = << >>

\* the run failed in fs::write, logged that error and exited with 1
WriteFailureReportedThenExit ==
    /\ pc = "exited"
    /\ exit_code = 1
    /\ logged = << "fs::write" >>

\* the run ended: run returned, or process::exit was called
Terminated == pc \in { "returned", "exited" }

\* some probe of the current fan-out has not returned
InFlight == \E i \in 1..Len(tasks) : tasks[i].st = "sent"

\* C14: while a probe has not returned the run is at its game's join_all,
\* has written nothing and has not exited, and no step taken from such a
\* state leaves the fan-out, starts another game's content request, calls
\* fs::write or ends the run: a probe that never returns holds the run there
\* forever. When every request is answered, the run terminates.
HungProbeBlocksElseTerminates ==
    /\ [](InFlight =>
            /\ pc = "join_all"
            /\ Len(content_calls) = gi
            /\ Len(games) = gi - 1
            /\ fs_calls = 0
            /\ Untouched
            /\ exit_code = -1)
    /\ [][InFlight =>
            /\ pc' = "join_all"
            /\ gi' = gi /\ ei' = ei
            /\ Len(tasks') = Len(tasks)
            /\ content_calls' = content_calls
            /\ games' = games
            /\ fs_calls' = fs_calls
            /\ file' = file
            /\ exit_code' = exit_code]_vars
    /\ <>Terminated

\* the first probe of a fan-out of two has resolved and is pushed, the second
\* has not returned: the join waits
SecondProbeHangs ==
    /\ pc = "join_all"
    /\ Len(tasks) = 2
    /\ tasks[1].st = "done" /\ tasks[1].res.ok
    /\ tasks[2].st = "sent"
    /\ ~ JoinReady(tasks)

\* the hour of a 12-hour clock for the hours 0..11 past midnight or noon
Hour12 == << << "1", "2" >>, << "1" >>, << "2" >>, << "3" >>, << "4" >>,
             << "5" >>, << "6" >>, << "7" >>, << "8" >>, << "9" >>,
             << "1", "0" >>, << "1", "1" >> >>

Numerals == << "0", "1", "2", "3", "4", "5", "6", "7", "8", "9" >>

\* "<away> @ <home>, <H:MM AM/PM> - <feed_type>" for the local time lh:lm
ExpectedTitle(away, home, lh, lm, feed) ==
    away \o << " ", "@", " " >> \o home \o << ",", " " >>
    \o Hour12[(lh % 12) + 1] \o << ":" >>
    \o << Numerals[(lm \div 10) + 1], Numerals[(lm % 10) + 1] >>
    \o << " " >> \o (IF lh < 12 THEN << "A" >> ELSE << "P" >>) \o << "M" >>
    \o << " ", "-", " " >> \o feed

\* the local start time of the one game create_playlist was called with
LocalStart ==
    [h |-> (todays_schedule[1].date.h + LocalOffsetHours) % 24,
     m |-> todays_schedule[1].date.m]

\* C15: the title line create_playlist renders for a stream is "#EXTINF:0,"
\* followed by "<away> @ <home>, <local start as H:MM AM/PM on a 12-hour
\* clock, hour not padded> - <feed_type>", whatever the url and the rest of
\* the state; Boston Bruins at New York Rangers, 19:00 local, feed "home"
\* gives "Boston Bruins @ New York Rangers, 7:00 PM - home".
TitleFormat ==
    pc = "fs_write" =>
        /\ Len(pending) = 3
        /\ pending[2] =
             << "#", "E", "X", "T", "I", "N", "F", ":", "0", "," >>
             \o ExpectedTitle(pl_games[1].away, pl_games[1].home, LocalStart.h,
                              LocalStart.m, pl_games[1].streams[1].feed_type)
        /\ (/\ pl_games[1].away = << "B", "o", "s", "t", "o", "n", " ", "B", "r", "u", "i", "n", "s" >>
            /\ pl_games[1].home = << "N", "e", "w", " ", "Y", "o", "r", "k", " ", "R", "a", "n", "g", "e", "r", "s" >>
            /\ LocalStart = [h |-> 19, m |-> 0]
            /\ pl_games[1].streams[1].feed_type = << "h", "o", "m", "e" >>)
           => pending[2] = << "#", "E", "X", "T", "I", "N", "F", ":", "0", ",", "B", "o", "s", "t", "o", "n", " ", "B", "r", "u", "i", "n", "s", " ", "@", " ", "N", "e", "w", " ", "Y", "o", "r", "k", " ", "R", "a", "n", "g", "e", "r", "s", ",", " ", "7", ":", "0", "0", " ", "P", "M", " ", "-", " ", "h", "o", "m", "e" >>

\* the title of the example was rendered
TitleOfExample ==
    /\ pc = "fs_write"
    /\ LocalStart = [h |-> 19, m |-> 0]
    /\ pending[2] = << "#", "E", "X", "T", "I", "N", "F", ":", "0", ",", "B", "o", "s", "t", "o", "n", " ", "B", "r", "u", "i", "n", "s", " ", "@", " ", "N", "e", "w", " ", "Y", "o", "r", "k", " ", "R", "a", "n", "g", "e", "r", "s", ",", " ", "7", ":", "0", "0", " ", "P", "M", " ", "-", " ", "h", "o", "m", "e" >>
    /\ pending[3] = B_URL \o << "b" >>

\* the tasks that hold the guard of streams
Holders == { i \in 1..Len(tasks) : tasks[i].st = "locked" }

\* C16: at most one task holds the guard of streams, and lock names it; a
\* task takes the guard only when it is free and without touching the
\* buffer, keeps it over no step but its own push, and the push appends that
\* task's single entry, drops the guard and ends the task; a held guard
\* belongs to a task that can push, and when every task has ended the guard
\* is free, so the coordinator's lock() is granted.
AppendsExclusive ==
    /\ [](/\ Cardinality(Holders) <= 1
          /\ lock = 0 => Holders = {}
          /\ lock # 0 => Holders = { lock } /\ pc = "join_all"
          /\ (pc = "join_all" /\ JoinReady(tasks)) => lock = 0)
    /\ [][/\ (lock = 0 /\ lock' # 0) => streams' = streams
          /\ lock # 0 =>
               \/ lock' = lock /\ streams' = streams
                                /\ tasks'[lock].st = "locked"
               \/ /\ lock' = 0
                  /\ streams' = Append(streams,
                                   << tasks[lock].item.media_feed_type,
                                      tasks[lock].body[1] >>)
                  /\ tasks'[lock].st = "done"]_vars

\* one task holds the guard while another, answered too, waits for it
OneHoldsOneWaits ==
    /\ pc = "join_all"
    /\ lock = 1
    /\ tasks[1].st = "locked"
    /\ Len(tasks) = 2
    /\ tasks[2].st = "lock"

\* some task of the current fan-out has not ended
Unfinished == \E i \in 1..Len(tasks) : tasks[i].st # "done"

\* C17: the content requests are sent in schedule order, each after the one
\* before it was answered; the tasks that have not ended are those of the
\* current fan-out of the game whose content was fetched last; and the step
\* that sends the next content request, like the step that launches the next
\* fan-out, starts from a state in which every task has ended.
GamesSequential ==
    /\ [](/\ Len(content_calls) <= Len(todays_schedule)
          /\ \A n \in 1..Len(content_calls) :
              /\ content_calls[n].pk = todays_schedule[n].game_pk
              /\ n < Len(content_calls) => content_calls[n].res = "ok"
          /\ Unfinished =>
              /\ pc = "join_all"
              /\ gi = Len(content_calls)
              /\ content_calls[gi].res = "ok"
          /\ \A i \in 1..Len(tasks) : tasks[i].st = "sent" =>
              \E n \in 1..Len(probes) :
                  probes[n] = [g |-> gi, e |-> ei, i |-> i,
                               item |-> tasks[i].item]
          /\ \A n \in 1..Len(probes) : probes[n].g <= gi)
    /\ [][(Len(content_calls') > Len(content_calls) \/ probes' # probes) =>
            /\ ~ Unfinished
            /\ \A n \in 1..Len(probes) : probes'[n] = probes[n]
            /\ \A n \in (Len(probes) + 1)..Len(probes') : probes'[n].g = gi'
            /\ gi' >= gi]_vars

\* the content of the second game is requested after the probe of the first
\* was sent and has returned
SecondFetchAfterFirstProbe ==
    /\ pc = "await_content"
    /\ gi = 2
    /\ content_calls[1].res = "ok"
    /\ content_calls[2].res = "sent"
    /\ Len(probes) = 1
    /\ probes[1].g = 1
    /\ tasks = << >>

\* the (entry, position) of the feed items of the fan-outs of the current
\* game launched so far
ReachedItems ==
    UNION { { << n, i >> : i \in 1..Len(game_content[n].items[1]) } :
              n \in { n \in 1..ei :
                        /\ game_content[n].title = << "N", "H", "L", "T", "V" >>
                        /\ game_content[n].items # None } }

\* the requests logged for entry n, position i of the current game
RequestsOf(n, i) ==
    { k \in 1..Len(probes) :
        probes[k].g = gi /\ probes[k].e = n /\ probes[k].i = i }

\* C18: every feed item of a fan-out that was launched has one task and one
\* request (none when its url does not parse, the task then ending at once);
\* a task that received its answer or failed never waits for a response
\* again and stays as it ended while its fan-out lasts; every request is for
\* a fetched game and belongs to one feed item of a matching entry, so there
\* are never more requests than such items; requests once logged stay.
ProbesFireOnce ==
    /\ [](/\ pc = "join_all" => Len(tasks) = Len(game_content[ei].items[1])
          /\ \A i \in 1..Len(tasks) :
              /\ tasks[i].st = "sent" =>
                    tasks[i].res = Unset /\ tasks[i].body = None
              /\ tasks[i].item = game_content[ei].items[1][i]
          /\ \A p \in ReachedItems :
              Cardinality(RequestsOf(p[1], p[2])) =
                  IF " " \in Range(game_content[p[1]].items[1][p[2]].media_playback_id)
                  THEN 0 ELSE 1
          /\ \A k \in 1..Len(probes) :
              /\ probes[k].g \in 1..Len(content_calls)
              /\ content_calls[probes[k].g].res = "ok"
              /\ probes[k].g = gi => << probes[k].e, probes[k].i >> \in ReachedItems
          /\ Cardinality({ k \in 1..Len(probes) : probes[k].g = gi })
                <= Cardinality(ReachedItems))
    /\ [][/\ \A k \in 1..Len(probes) : probes'[k] = probes[k]
          /\ \A k \in (Len(probes) + 1)..Len(probes') : probes'[k].g = gi'
          /\ (pc' = "join_all" /\ probes' = probes) =>
                \A i \in 1..Len(tasks) :
                    tasks[i].st = "done" => tasks'[i] = tasks[i]]_vars

\* a fan-out of two whose first probe failed in transport and stays failed
\* while the second, sent once, is still awaited
FailedProbeNotRetried ==
    /\ pc = "join_all"
    /\ Len(tasks) = 2
    /\ tasks[1].st = "done" /\ tasks[1].res = Err("transport")
    /\ tasks[2].st = "sent"
    /\ Len(probes) = 2

\* the requests logged for the game at schedule position k
RequestsOfGame(k) == { n \in 1..Len(probes) : probes[n].g = k }

\* C19: a fan-out is launched only for an entry titled exactly "NHLTV" that
\* has items; every request of the current game is for an item of such an
\* entry, every buffered or merged stream has the feed type of such an item,
\* and a game for which no request was made (no such entry, or none with
\* items) still has its record, with an empty stream list.
OnlyNhltvProbed ==
    /\ pc = "join_all" =>
        /\ game_content[ei].title = << "N", "H", "L", "T", "V" >>
        /\ game_content[ei].items # None
    /\ \A n \in RequestsOfGame(gi) :
        /\ probes[n].e \in 1..Len(game_content)
        /\ game_content[probes[n].e].title = << "N", "H", "L", "T", "V" >>
        /\ game_content[probes[n].e].items # None
        /\ probes[n].item = game_content[probes[n].e].items[1][probes[n].i]
    /\ \A n \in 1..Len(game_content) :
        game_content[n].title # << "N", "H", "L", "T", "V" >> =>
            \A k \in 1..Len(probes) : ~ (probes[k].g = gi /\ probes[k].e = n)
    /\ \A j \in 1..Len(streams) :
        \E i \in 1..Len(tasks) : streams[j][1] = tasks[i].item.media_feed_type
    /\ \A j \in 1..Len(game_data.streams) :
        \E n \in RequestsOfGame(gi) :
            game_data.streams[j].feed_type = probes[n].item.media_feed_type
    /\ pc \in { "await_content", "join_all" } => Len(games) = gi - 1
    /\ pc = "create_playlist" => Len(games) = Len(todays_schedule)
    /\ \A k \in 1..Len(games) :
        /\ games[k].home = todays_schedule[k].home
        /\ games[k].away = todays_schedule[k].away
        /\ RequestsOfGame(k) = {} => games[k].streams = << >>

\* the first game had no request and has its empty record; the second game
\* lists an item under another title and one under NHLTV, and only the
\* latter is requested
OtherEntrySkipped ==
    /\ pc = "join_all"
    /\ gi = 2
    /\ games[1].streams = << >>
    /\ game_content = << Epg(RECAP, Some(<< I1 >>)), Epg(NHLTV, Some(<< I2 >>)) >>
    /\ Len(probes) = 1
    /\ probes[1].item = I2

\* the text holds a line break
HasBreak(s) == \E n \in 1..Len(s) : s[n] \in { "\n", "\r" }

\* some entry create_playlist was called with has a line break in its url
\* or in a part of its title
BrokenEntry ==
    \E k \in 1..Len(pl_games) : \E j \in 1..Len(pl_games[k].streams) :
        \/ HasBreak(pl_games[k].streams[j].url)
        \/ HasBreak(pl_games[k].streams[j].feed_type)
        \/ HasBreak(pl_games[k].away)
        \/ HasBreak(pl_games[k].home)

\* C20, as stated: every body get_m3u8 accepts makes a single-line entry, and
\* the run fails for no reason other than the extension check, the schedule
\* request, a content request or the file write.
ProbeBodiesNeverAbort ==
    /\ \A i \in 1..Len(tasks) :
        tasks[i].res.ok => ~ HasBreak(tasks[i].res.val)
    /\ err \in { "none", "Playlist file extension must be '.m3u'",
                 "get_schedule_for", "get_game_content", "fs::write" }

\* C20: get_m3u8 accepts exactly the bodies that start with "https", line
\* breaks or not; once the extension check, the schedule request and the
\* content requests have succeeded, create_playlist fails exactly when an
\* entry holds a line break in its url or its title, and then nothing is
\* written; otherwise the file write is attempted with every url on one
\* line. The run fails for no reason other than these.
BodiesAbortOnlyByLineBreak ==
    /\ \A i \in 1..Len(tasks) :
        tasks[i].body # None =>
            (tasks[i].res.ok <=> HasHttpsPrefix(tasks[i].body[1]))
    /\ err \in { "none", "Playlist file extension must be '.m3u'",
                 "get_schedule_for", "get_game_content", "fs::write",
                 "SingleLineString" }
    /\ err = "SingleLineString" => BrokenEntry /\ fs_calls = 0 /\ Untouched
    /\ (pc \in { "fs_write", "ok", "returned" } \/ err = "fs::write") =>
        ~ BrokenEntry
    /\ pc = "returned" =>
        \A n \in 1..Len(file.lines) : ~ HasBreak(file.lines[n])

\* every request succeeded; the one probe was answered with a body that
\* starts with https and ends in a line break, was accepted, and the run
\* exited with a serialization error and the file as it was
LineBreakBodyAborts ==
    /\ pc = "exited"
    /\ err = "SingleLineString"
    /\ Len(pl_games) = 1
    /\ pl_games[1].home = G1.home
    /\ pl_games[1].streams =
         << [feed_type |-> I1.media_feed_type, url |-> B_NL] >>
    /\ sched_calls = << "ok" >>
    /\ content_calls = << [pk |-> 1, res |-> "ok"] >>
    /\ Untouched

====
